---- MODULE Spec2Model ----
(***************************************************************************)
(* Model of the weather adapter: the MCP tools of server.py                *)
(* (get_current_weather, get_forecast, get_historical_weather), the REST   *)
(* endpoints of main.py (/current, /forecast, /historical), the shared     *)
(* upstream call make_openmeteo_request and the WMO code lookup.           *)
(*                                                                         *)
(* One behaviour is one invocation: an operation is called from "idle",    *)
(* runs its validation up to the single await, and either returns at once  *)
(* or issues the upstream request ("awaiting"); the upstream outcome then  *)
(* resumes the handler, which returns or raises ("done").                  *)
(***************************************************************************)
EXTENDS Integers, Sequences, FiniteSets, TLC

VARIABLES pc, binding, op, args, today, requests, url, response, result

vars == <<pc, binding, op, args, today, requests, url, response, result>>

-----------------------------------------------------------------------------
(* Python strings.  A str is a TLA+ string; Chars gives its characters for *)
(* the strings the model uses (regex matching, strptime, iteration and the *)
(* substring test of `in` work on the characters).                         *)

Digits == <<"0", "1", "2", "3", "4", "5", "6", "7", "8", "9">>

IsDigit(c) == \E i \in 1..10 : Digits[i] = c

DigitVal(c) == (CHOOSE i \in 1..10 : Digits[i] = c) - 1

Chars(s) ==
    CASE s = ""             -> << >>
      [] s = "x"            -> <<"x">>
      [] s = "ab"           -> <<"a", "b">>
      [] s = "daily"        -> <<"d", "a", "i", "l", "y">>
      [] s = "hourly"       -> <<"h", "o", "u", "r", "l", "y">>
      [] s = "current"      -> <<"c", "u", "r", "r", "e", "n", "t">>
      [] s = "weathercode"  -> <<"w", "e", "a", "t", "h", "e", "r", "c", "o", "d", "e">>
      [] s = "weather_code" -> <<"w", "e", "a", "t", "h", "e", "r", "_", "c", "o", "d", "e">>
      [] s = "2024/01/01"   -> <<"2", "0", "2", "4", "/", "0", "1", "/", "0", "1">>
      [] s = "2024-13-01"   -> <<"2", "0", "2", "4", "-", "1", "3", "-", "0", "1">>
      [] s = "2023-01-01\n" -> <<"2", "0", "2", "3", "-", "0", "1", "-", "0", "1", "\n">>
      [] s = "2023-01-01"   -> <<"2", "0", "2", "3", "-", "0", "1", "-", "0", "1">>
      [] s = "2024-01-01"   -> <<"2", "0", "2", "4", "-", "0", "1", "-", "0", "1">>
      [] s = "2024-12-31"   -> <<"2", "0", "2", "4", "-", "1", "2", "-", "3", "1">>
      [] s = "2025-01-01"   -> <<"2", "0", "2", "5", "-", "0", "1", "-", "0", "1">>

Strings ==
    { "", "x", "ab", "daily", "hourly", "current", "weathercode", "weather_code",
      "2024/01/01", "2024-13-01", "2023-01-01\n", "2023-01-01", "2024-01-01",
      "2024-12-31", "2025-01-01" }

\* The str with the given characters.
StrOf(cs) == CHOOSE s \in Strings : Chars(s) = cs

\* Python `sub in s` on two strs: sub occurs as a contiguous run of s.
IsSubstring(sub, s) ==
    LET a == Chars(sub)
        b == Chars(s)
    IN  \E i \in 0..(Len(b) - Len(a)) :
            \A j \in 1..Len(a) : b[i + j] = a[j]

-----------------------------------------------------------------------------
(* Inputs of a call. *)

\* (latitude, longitude): each bound of each range from both sides.
Coordinates ==
    { [latitude |-> -90, longitude |-> -180], [latitude |-> 90, longitude |-> 180],
      [latitude |-> -91, longitude |-> 0],    [latitude |-> 91, longitude |-> 0],
      [latitude |-> 0, longitude |-> -181],   [latitude |-> 0, longitude |-> 181],
      [latitude |-> 91, longitude |-> -181] }

DateInputs ==
    { "", "2024/01/01", "2024-13-01", "2023-01-01\n",
      "2023-01-01", "2024-12-31", "2025-01-01" }

\* The values datetime.now(timezone.utc).date() takes in the model.
Todays == { [year |-> 2024, month |-> 12, day |-> 31],
            [year |-> 2025, month |-> 1, day |-> 1] }

-----------------------------------------------------------------------------
(* datetime.date: parsing, comparison, subtraction, formatting. *)

IsLeap(y) == y % 4 = 0 /\ (y % 100 # 0 \/ y % 400 = 0)

DaysInMonth(y, m) ==
    IF m = 2 THEN (IF IsLeap(y) THEN 29 ELSE 28)
    ELSE IF m \in {4, 6, 9, 11} THEN 30 ELSE 31

RECURSIVE DaysBeforeMonth(_, _)
DaysBeforeMonth(y, m) ==
    IF m <= 1 THEN 0 ELSE DaysBeforeMonth(y, m - 1) + DaysInMonth(y, m - 1)

DaysBeforeYear(y) ==
    (y - 1) * 365 + ((y - 1) \div 4) - ((y - 1) \div 100) + ((y - 1) \div 400)

ToOrdinal(d) == DaysBeforeYear(d.year) + DaysBeforeMonth(d.year, d.month) + d.day

\* date.__gt__: (year, month, day) compared in order.
DateGT(a, b) ==
    \/ a.year > b.year
    \/ a.year = b.year /\ a.month > b.month
    \/ a.year = b.year /\ a.month = b.month /\ a.day > b.day

\* (end - start).days
DaysBetween(start, end) == ToOrdinal(end) - ToOrdinal(start)

\* re.match(r'^\d{4}-\d{2}-\d{2}$', s): `$` also matches before a final newline.
MatchesDatePattern(s) ==
    LET c == Chars(s)
    IN  /\ Len(c) \in {10, 11}
        /\ \A i \in {1, 2, 3, 4, 6, 7, 9, 10} : IsDigit(c[i])
        /\ c[5] = "-" /\ c[8] = "-"
        /\ Len(c) = 11 => c[11] = "\n"

Num2(a, b) == 10 * DigitVal(a) + DigitVal(b)

\* datetime.strptime(s, "%Y-%m-%d").date() on a str that matched the pattern:
\* a date, or ValueError with the reason.
Strptime(s) ==
    LET c == Chars(s)
    IN  IF Len(c) # 10
        THEN [ok |-> FALSE, why |-> "unconverted data remains"]
        ELSE LET y == 100 * Num2(c[1], c[2]) + Num2(c[3], c[4])
                 m == Num2(c[6], c[7])
                 d == Num2(c[9], c[10])
             IN  IF m \notin 1..12 \/ d = 0
                 THEN [ok |-> FALSE, why |-> "does not match format"]
                 ELSE IF d > 31
                 THEN [ok |-> FALSE, why |-> "unconverted data remains"]
                 ELSE IF y < 1
                 THEN [ok |-> FALSE, why |-> "year is out of range"]
                 ELSE IF d > DaysInMonth(y, m)
                 THEN [ok |-> FALSE, why |-> "day is out of range for month"]
                 ELSE [ok |-> TRUE, date |-> [year |-> y, month |-> m, day |-> d]]

Pad(n, width) ==
    [i \in 1..width |-> Digits[((n \div (10 ^ (width - i))) % 10) + 1]]

\* date.isoformat()
IsoFormat(d) ==
    StrOf(Pad(d.year, 4) \o <<"-">> \o Pad(d.month, 2) \o <<"-">> \o Pad(d.day, 2))

-----------------------------------------------------------------------------
(* JSON values as Python sees them after response.json(): each value is    *)
(* tagged with its type, since `in`, indexing, iteration, item assignment  *)
(* and truthiness behave differently on each.                              *)

Null == [t |-> "null"]

Bool(b) == [t |-> "bool", b |-> b]

Num(n) == [t |-> "num", n |-> n]

Str(s) == [t |-> "str", s |-> s]

Arr(a) == [t |-> "arr", a |-> a]

Obj(o) == [t |-> "obj", o |-> o]

EmptyDict == [k \in {} |-> Null]

\* Outcome of evaluating a Python expression: a value, or a raised exception.
Ok(v) == [ok |-> TRUE, v |-> v]

Raise(e) == [ok |-> FALSE, exc |-> e]

\* Truthy as `v is not None`: only None counts as no data.
Truthy_NotNone(v) == v.t # "null"

\* bool(v)
Truthy(v) ==
    CASE v.t = "null" -> FALSE
      [] v.t = "bool" -> v.b
      [] v.t = "num"  -> v.n # 0
      [] v.t = "str"  -> v.s # ""
      [] v.t = "arr"  -> Len(v.a) > 0
      [] v.t = "obj"  -> DOMAIN v.o # {}

\* key in v, for a str key
PyIn(key, v) ==
    CASE v.t = "obj" -> Ok(key \in DOMAIN v.o)
      [] v.t = "arr" -> Ok(\E i \in 1..Len(v.a) : v.a[i] = Str(key))
      [] v.t = "str" -> Ok(IsSubstring(key, v.s))
      [] OTHER       -> Raise("TypeError")

\* v[key], for a str key
PyGetItem(v, key) ==
    IF v.t = "obj"
    THEN (IF key \in DOMAIN v.o THEN Ok(v.o[key]) ELSE Raise("KeyError"))
    ELSE Raise("TypeError")

\* d with d[key] = val
DictSet(d, key, val) ==
    [k \in (DOMAIN d) \cup {key} |-> IF k = key THEN val ELSE d[k]]

\* v[key] = val, for a str key
PySetItem(v, key, val) ==
    IF v.t = "obj" THEN Ok(Obj(DictSet(v.o, key, val))) ELSE Raise("TypeError")

\* The keys of a dict in iteration order (the model's dicts that are iterated
\* hold at most one key).
KeyList(d) ==
    IF DOMAIN d = {} THEN << >> ELSE <<Str(CHOOSE k \in DOMAIN d : TRUE)>>

\* for code in v: the sequence of items v yields
PyIter(v) ==
    CASE v.t = "arr" -> Ok(v.a)
      [] v.t = "str" -> Ok([i \in 1..Len(Chars(v.s)) |-> Str(Chars(v.s)[i])])
      [] v.t = "obj" -> Ok(KeyList(v.o))
      [] OTHER       -> Raise("TypeError")

-----------------------------------------------------------------------------
(* get_weather_description *)

weather_codes ==
    (0 :> "Clear sky") @@ (1 :> "Mainly clear") @@ (2 :> "Partly cloudy") @@
    (3 :> "Overcast") @@ (45 :> "Fog") @@ (48 :> "Depositing rime fog") @@
    (51 :> "Drizzle: Light intensity") @@ (53 :> "Drizzle: Moderate intensity") @@
    (55 :> "Drizzle: Dense intensity") @@
    (56 :> "Freezing drizzle: Light intensity") @@
    (57 :> "Freezing drizzle: Dense intensity") @@
    (61 :> "Rain: Slight intensity") @@ (63 :> "Rain: Moderate intensity") @@
    (65 :> "Rain: Heavy intensity") @@ (66 :> "Freezing rain: Light intensity") @@
    (67 :> "Freezing rain: Heavy intensity") @@
    (71 :> "Snow fall: Slight intensity") @@ (73 :> "Snow fall: Moderate intensity") @@
    (75 :> "Snow fall: Heavy intensity") @@ (77 :> "Snow grains") @@
    (80 :> "Rain showers: Slight intensity") @@
    (81 :> "Rain showers: Moderate intensity") @@
    (82 :> "Rain showers: Violent intensity") @@
    (85 :> "Snow showers: Slight intensity") @@
    (86 :> "Snow showers: Heavy intensity") @@
    (95 :> "Thunderstorm: Slight or moderate") @@
    (96 :> "Thunderstorm with slight hail") @@
    (99 :> "Thunderstorm with heavy hail")

\* LookupCode with a default that leaves the code out.
LookupCode_DefaultWithoutCode(n) ==
    IF n \in DOMAIN weather_codes
    THEN weather_codes[n]
    ELSE "Unknown weather code"

\* weather_codes.get(n, f"Unknown weather code: {n}") for an int n
LookupCode(n) ==
    IF n \in DOMAIN weather_codes
    THEN weather_codes[n]
    ELSE "Unknown weather code: " \o ToString(n)

\* get_weather_description(code) for any JSON value code: dict.get hashes the
\* key (a list or a dict is unhashable), True and False hash as 1 and 0.
get_weather_description(code) ==
    CASE code.t = "num"  -> Ok(LookupCode(code.n))
      [] code.t = "bool" -> Ok(LookupCode(IF code.b THEN 1 ELSE 0))
      [] code.t = "null" -> Ok("Unknown weather code: None")
      [] code.t = "str"  -> Ok("Unknown weather code: " \o code.s)
      [] OTHER           -> Raise("TypeError")

\* [get_weather_description(code) for code in codes]
DescribeAll(codes) ==
    IF \E i \in 1..Len(codes) : ~get_weather_description(codes[i]).ok
    THEN Raise("TypeError")
    ELSE Ok(Arr([i \in 1..Len(codes) |-> Str(get_weather_description(codes[i]).v)]))

-----------------------------------------------------------------------------
(* The upstream: what a GET to Open-Meteo can end in, and the JSON bodies a *)
(* 2xx response carries.                                                    *)

MaxSeriesLen == 2

Codes == {-1, 0, 4, 61, 99, 9999}

SeriesCodes == {61, 9999}

CodeKeys == {"weathercode", "weather_code"}

\* The weather-code arrays of length 0..MaxSeriesLen.
CodeArrays ==
    UNION { { Arr([i \in 1..n |-> Num(f[i])]) : f \in [1..n -> SeriesCodes] } :
            n \in 0..MaxSeriesLen }

Times == Arr(<<Str("2024-01-01")>>)

\* A daily or hourly series as upstream sends it: with or without a code array.
GoodSeries ==
    { Obj([time |-> Times]) } \cup
    { Obj(DictSet([time |-> Times], k, a)) : k \in CodeKeys, a \in CodeArrays }

\* Series of another shape: not a mapping, or a code series that is not a
\* list of numbers.
OddSeries ==
    { Num(5), Null, Str("x") } \cup
    UNION { { Str(k), Arr(<<Str(k)>>),
              Obj(DictSet(EmptyDict, k, Num(5))),
              Obj(DictSet(EmptyDict, k, Null)),
              Obj(DictSet(EmptyDict, k, Str("ab"))),
              Obj(DictSet(EmptyDict, k, Obj([x |-> Num(1)]))),
              Obj(DictSet(EmptyDict, k, Arr(<<Null, Bool(TRUE)>>))),
              Obj(DictSet(EmptyDict, k, Arr(<<Arr(<< >>)>>))) } : k \in CodeKeys }

\* The few series the other section takes while one section ranges over all.
FewSeries ==
    { Obj([time |-> Times]),
      Obj([time |-> Times, weathercode |-> Arr(<<Num(0)>>),
           weather_code |-> Arr(<<Num(4)>>)]) }

Base == [latitude |-> Num(49)]

SeriesPayloads ==
    LET all == GoodSeries \cup OddSeries
    IN  { Obj(DictSet(Base, "daily", s)) : s \in all } \cup
        { Obj(DictSet(Base, "hourly", s)) : s \in all } \cup
        { Obj(DictSet(DictSet(Base, "daily", s), "hourly", f)) :
              s \in GoodSeries, f \in FewSeries } \cup
        { Obj(DictSet(DictSet(Base, "hourly", s), "daily", f)) :
              s \in GoodSeries, f \in FewSeries } \cup
        { Obj(DictSet(DictSet(Base, "daily", Num(5)), "hourly", f)) :
              f \in FewSeries }

CurrentSections ==
    { Obj([temperature_2m |-> Num(7)]) } \cup
    { Obj([temperature_2m |-> Num(7), weather_code |-> Num(c)]) : c \in Codes } \cup
    { Num(5), Null, Str("x"), Str("weather_code"), Arr(<<Str("weather_code")>>),
      Obj([weather_code |-> Null]), Obj([weather_code |-> Str("ab")]),
      Obj([weather_code |-> Bool(TRUE)]), Obj([weather_code |-> Arr(<< >>)]) }

CurrentPayloads == { Obj(DictSet(Base, "current", c)) : c \in CurrentSections }

\* Bodies that are not a non-empty mapping with sections.
OtherPayloads ==
    { Obj(EmptyDict), Obj(Base), Null, Bool(FALSE), Bool(TRUE), Num(0), Num(5),
      Str(""), Str("x"), Str("daily"), Str("current"),
      Arr(<< >>), Arr(<<Num(1)>>), Arr(<<Str("daily")>>), Arr(<<Str("current")>>) }

Payloads == SeriesPayloads \cup CurrentPayloads \cup OtherPayloads

ErrorStatuses == {301, 404, 500, 503}

ErrorBody == Obj([error |-> Bool(TRUE), reason |-> Str("x")])

\* make_openmeteo_request without raise_for_status(): the body of an error
\* response is parsed and returned.
make_openmeteo_request_NoRaiseForStatus(resp) ==
    CASE resp.kind \in {"network_error", "timeout"} -> Null
      [] resp.kind = "response" /\ ~resp.parses -> Null
      [] resp.kind = "response" -> resp.body
      [] OTHER -> Null

\* make_openmeteo_request(url) given what the GET ended in: the parsed body
\* of a 2xx response, or None.
make_openmeteo_request(resp) ==
    CASE resp.kind \in {"network_error", "timeout"} -> Null
      [] resp.kind = "response" /\ resp.status \notin 200..299 -> Null
      [] resp.kind = "response" /\ ~resp.parses -> Null
      [] resp.kind = "response" -> resp.body
      [] OTHER -> Null

-----------------------------------------------------------------------------
(* server.py: validation.  A check yields Pass, or Fail with the dict the   *)
(* tool returns.                                                            *)

MaxDays == 730

Pass == [pass |-> TRUE]

Fail(type, message, details) ==
    [pass |-> FALSE,
     value |-> Obj([error |-> [type |-> type, message |-> message, details |-> details]])]

\* ValidateCoordinates with the longitude test written on latitude.
ValidateCoordinates_LatitudeTwice(latitude, longitude) ==
    IF ~(-90 <= latitude /\ latitude <= 90)
    THEN Fail("ValidationError",
              "Invalid latitude. Must be between -90 and 90 degrees.",
              [parameter |-> "latitude", provided_value |-> latitude,
               valid_range |-> <<-90, 90>>])
    ELSE IF ~(-180 <= latitude /\ latitude <= 180)
    THEN Fail("ValidationError",
              "Invalid longitude. Must be between -180 and 180 degrees.",
              [parameter |-> "longitude", provided_value |-> longitude,
               valid_range |-> <<-180, 180>>])
    ELSE Pass

\* The coordinate checks that open each of the three tools.
ValidateCoordinates(latitude, longitude) ==
    IF ~(-90 <= latitude /\ latitude <= 90)
    THEN Fail("ValidationError",
              "Invalid latitude. Must be between -90 and 90 degrees.",
              [parameter |-> "latitude", provided_value |-> latitude,
               valid_range |-> <<-90, 90>>])
    ELSE IF ~(-180 <= longitude /\ longitude <= 180)
    THEN Fail("ValidationError",
              "Invalid longitude. Must be between -180 and 180 degrees.",
              [parameter |-> "longitude", provided_value |-> longitude,
               valid_range |-> <<-180, 180>>])
    ELSE Pass

\* if not start_date or not end_date
ValidateDatesPresent(start_date, end_date) ==
    IF start_date = "" \/ end_date = ""
    THEN Fail("ValidationError",
              "Please provide both start_date and end_date in YYYY-MM-DD format.",
              [parameter |-> "start_date and end_date",
               provided_values |-> [start_date |-> start_date, end_date |-> end_date]])
    ELSE Pass

\* The re.match of both dates against date_pattern.
ValidateDateFormat(start_date, end_date) ==
    IF ~MatchesDatePattern(start_date) \/ ~MatchesDatePattern(end_date)
    THEN Fail("ValidationError",
              "Invalid date format. Use YYYY-MM-DD format.",
              [parameter |-> "date format",
               provided_values |-> [start_date |-> start_date, end_date |-> end_date],
               expected_format |-> "YYYY-MM-DD"])
    ELSE Pass

RangeOrderingFail(start_date, end_date) ==
    Fail("ValidationError",
         "start_date must be before or equal to end_date.",
         [start_date |-> start_date, end_date |-> end_date])

RangeFutureFail(start_date, end_date, now) ==
    Fail("ValidationError",
         "Historical weather dates cannot be in the future.",
         [start_date |-> start_date, end_date |-> end_date, today |-> IsoFormat(now)])

RangeSpanFail(start_date, end_date, days) ==
    Fail("ValidationError",
         "Date range exceeds maximum allowed period of 2 years (730 days).",
         [start_date |-> start_date, end_date |-> end_date,
          requested_days |-> days, max_days |-> 730])

\* ValidateDateRange without the start > end check.
ValidateDateRange_NoOrdering(start_date, end_date, start, end, now) ==
    IF DateGT(start, now) \/ DateGT(end, now)
    THEN RangeFutureFail(start_date, end_date, now)
    ELSE IF DaysBetween(start, end) > MaxDays
    THEN RangeSpanFail(start_date, end_date, DaysBetween(start, end))
    ELSE Pass

\* ValidateDateRange with the span check ahead of the future check.
ValidateDateRange_SpanFirst(start_date, end_date, start, end, now) ==
    IF DateGT(start, end)
    THEN RangeOrderingFail(start_date, end_date)
    ELSE IF DaysBetween(start, end) > MaxDays
    THEN RangeSpanFail(start_date, end_date, DaysBetween(start, end))
    ELSE IF DateGT(start, now) \/ DateGT(end, now)
    THEN RangeFutureFail(start_date, end_date, now)
    ELSE Pass

\* ValidateDateRange rejecting a span of exactly MaxDays.
ValidateDateRange_SpanInclusive(start_date, end_date, start, end, now) ==
    IF DateGT(start, end)
    THEN RangeOrderingFail(start_date, end_date)
    ELSE IF DateGT(start, now) \/ DateGT(end, now)
    THEN RangeFutureFail(start_date, end_date, now)
    ELSE IF DaysBetween(start, end) >= MaxDays
    THEN RangeSpanFail(start_date, end_date, DaysBetween(start, end))
    ELSE Pass

\* The three range checks on the parsed dates, in the order of the code.
ValidateDateRange(start_date, end_date, start, end, now) ==
    IF DateGT(start, end)
    THEN RangeOrderingFail(start_date, end_date)
    ELSE IF DateGT(start, now) \/ DateGT(end, now)
    THEN RangeFutureFail(start_date, end_date, now)
    ELSE IF DaysBetween(start, end) > MaxDays
    THEN RangeSpanFail(start_date, end_date, DaysBetween(start, end))
    ELSE Pass

\* The try block: both dates parsed (start first), then the range checks; a
\* ValueError of strptime becomes a ValidationError carrying its message.
ValidateDateLogic(start_date, end_date, now) ==
    LET s == Strptime(start_date)
        e == Strptime(end_date)
    IN  IF ~s.ok \/ ~e.ok
        THEN Fail("ValidationError",
                  "Invalid date values: " \o (IF ~s.ok THEN s.why ELSE e.why),
                  [start_date |-> start_date, end_date |-> end_date])
        ELSE ValidateDateRange(start_date, end_date, s.date, e.date, now)

\* Everything get_historical_weather checks before it builds the URL.
ValidateHistorical(latitude, longitude, start_date, end_date, now) ==
    LET c == ValidateCoordinates(latitude, longitude)
        p == ValidateDatesPresent(start_date, end_date)
        f == ValidateDateFormat(start_date, end_date)
    IN  IF ~c.pass THEN c
        ELSE IF ~p.pass THEN p
        ELSE IF ~f.pass THEN f
        ELSE ValidateDateLogic(start_date, end_date, now)

APIError(message, details) ==
    Obj([error |-> [type |-> "APIError", message |-> message, details |-> details]])

-----------------------------------------------------------------------------
(* server.py: what a tool does with the data once the request is over.     *)

Return(v) == [kind |-> "return", value |-> v]

Raised(e) == [kind |-> "raise", exc |-> e]

NoResult == [kind |-> "none"]

\* datetime.now(timezone.utc).isoformat()
NowIso(now) == IsoFormat(now) \o "T12:00:00+00:00"

\* if section in data and key in data[section]:
\*     data[section]["weather_description"] =
\*         [get_weather_description(code) for code in data[section][key]]
EnrichSeries(data, section, key) ==
    LET inData == PyIn(section, data)
    IN  IF ~inData.ok THEN inData
        ELSE IF ~inData.v THEN Ok(data)
        ELSE LET sec == PyGetItem(data, section)
        IN  IF ~sec.ok THEN sec
            ELSE LET inSec == PyIn(key, sec.v)
            IN  IF ~inSec.ok THEN inSec
                ELSE IF ~inSec.v THEN Ok(data)
                ELSE LET codes == PyGetItem(sec.v, key)
                IN  IF ~codes.ok THEN codes
                    ELSE LET items == PyIter(codes.v)
                    IN  IF ~items.ok THEN items
                        ELSE LET descs == DescribeAll(items.v)
                        IN  IF ~descs.ok THEN descs
                            ELSE LET new == PySetItem(sec.v, "weather_description", descs.v)
                            IN  IF ~new.ok THEN new
                                ELSE PySetItem(data, section, new.v)

\* if "current" in data and "weather_code" in data["current"]:
\*     data["current"]["weather_description"] =
\*         get_weather_description(data["current"]["weather_code"])
EnrichCurrent(data) ==
    LET inData == PyIn("current", data)
    IN  IF ~inData.ok THEN inData
        ELSE IF ~inData.v THEN Ok(data)
        ELSE LET sec == PyGetItem(data, "current")
        IN  IF ~sec.ok THEN sec
            ELSE LET inSec == PyIn("weather_code", sec.v)
            IN  IF ~inSec.ok THEN inSec
                ELSE IF ~inSec.v THEN Ok(data)
                ELSE LET code == PyGetItem(sec.v, "weather_code")
                IN  IF ~code.ok THEN code
                    ELSE LET desc == get_weather_description(code.v)
                    IN  IF ~desc.ok THEN desc
                        ELSE LET new == PySetItem(sec.v, "weather_description", Str(desc.v))
                        IN  IF ~new.ok THEN new
                            ELSE PySetItem(data, "current", new.v)

\* data["generated_at"] = ...; return data
Stamp(enriched, now) ==
    IF ~enriched.ok THEN Raised(enriched.exc)
    ELSE LET stamped == PySetItem(enriched.v, "generated_at", Str(NowIso(now)))
         IN  IF ~stamped.ok THEN Raised(stamped.exc) ELSE Return(stamped.v)

\* get_forecast from `if not data` on.
ForecastResult(data, a, now) ==
    IF ~Truthy(data)
    THEN Return(APIError("Unable to fetch forecast data for this location.",
                         [latitude |-> a.latitude, longitude |-> a.longitude]))
    ELSE LET daily == EnrichSeries(data, "daily", "weathercode")
         IN  IF ~daily.ok THEN Raised(daily.exc)
             ELSE Stamp(EnrichSeries(daily.v, "hourly", "weathercode"), now)

\* get_current_weather from `if not data` on.
CurrentResult(data, a, now) ==
    IF ~Truthy(data)
    THEN Return(APIError("Unable to fetch current weather data for this location.",
                         [latitude |-> a.latitude, longitude |-> a.longitude]))
    ELSE Stamp(EnrichCurrent(data), now)

\* HistoricalResult reading the hourly codes under the key of get_forecast.
HistoricalResult_ForecastKey(data, a, now) ==
    IF ~Truthy(data)
    THEN Return(APIError(
             "Unable to fetch historical weather data for this location and date range.",
             [latitude |-> a.latitude, longitude |-> a.longitude,
              start_date |-> a.start_date, end_date |-> a.end_date]))
    ELSE LET daily == EnrichSeries(data, "daily", "weather_code")
         IN  IF ~daily.ok THEN Raised(daily.exc)
             ELSE Stamp(EnrichSeries(daily.v, "hourly", "weathercode"), now)

\* get_historical_weather from `if not data` on.
HistoricalResult(data, a, now) ==
    IF ~Truthy(data)
    THEN Return(APIError(
             "Unable to fetch historical weather data for this location and date range.",
             [latitude |-> a.latitude, longitude |-> a.longitude,
              start_date |-> a.start_date, end_date |-> a.end_date]))
    ELSE LET daily == EnrichSeries(data, "daily", "weather_code")
         IN  IF ~daily.ok THEN Raised(daily.exc)
             ELSE Stamp(EnrichSeries(daily.v, "hourly", "weather_code"), now)

-----------------------------------------------------------------------------
(* main.py: the REST endpoints.  A failed check raises HTTPException; the   *)
(* data is returned as upstream sent it.                                    *)

HTTPException(status_code, detail) ==
    [kind |-> "raise", exc |-> "HTTPException", status_code |-> status_code,
     detail |-> detail]

RestPass == [pass |-> TRUE]

RestFail(r) == [pass |-> FALSE, result |-> r]

\* The coordinate checks that open each of the three endpoints.
RestValidateCoordinates(latitude, longitude) ==
    IF ~(-90 <= latitude /\ latitude <= 90)
    THEN RestFail(HTTPException(400,
             "Invalid latitude. Must be between -90 and 90 degrees."))
    ELSE IF ~(-180 <= longitude /\ longitude <= 180)
    THEN RestFail(HTTPException(400,
             "Invalid longitude. Must be between -180 and 180 degrees."))
    ELSE RestPass

\* Everything /historical checks before it builds the URL.
RestValidateHistorical(latitude, longitude, start_date, end_date) ==
    LET c == RestValidateCoordinates(latitude, longitude)
    IN  IF ~c.pass THEN c
        ELSE IF start_date = "" \/ end_date = ""
        THEN RestFail(HTTPException(400,
                 "Please provide both start_date and end_date in YYYY-MM-DD format."))
        ELSE IF ~MatchesDatePattern(start_date) \/ ~MatchesDatePattern(end_date)
        THEN RestFail(HTTPException(400, "Invalid date format. Use YYYY-MM-DD format."))
        ELSE RestPass

\* An endpoint from `if not data` on.
RestResult(data, detail) ==
    IF ~Truthy(data) THEN HTTPException(503, detail) ELSE Return(data)

\* The status of the HTTP response the framework sends for a handler's outcome.
HttpStatus(r) ==
    CASE r.kind = "return" -> 200
      [] r.kind = "raise" /\ r.exc = "HTTPException" -> r.status_code
      [] OTHER -> 500

-----------------------------------------------------------------------------
(* The state machine. *)

NoResponse == [kind |-> "none"]

NoUrl == [base |-> "none"]

NoArgs == [latitude |-> 0, longitude |-> 0]

Init ==
    /\ pc = "idle"
    /\ binding = "none"
    /\ op = "none"
    /\ args = NoArgs
    /\ today \in Todays
    /\ requests = 0
    /\ url = NoUrl
    /\ response = NoResponse
    /\ result = NoResult

\* The handler ends before any request: it returns (or raises) r.
EndEarly(b, o, a, r) ==
    /\ pc' = "done"
    /\ binding' = b
    /\ op' = o
    /\ args' = a
    /\ result' = r
    /\ UNCHANGED <<today, requests, url, response>>

\* The handler reaches its await: the GET to u is issued.
Await(b, o, a, u) ==
    /\ pc' = "awaiting"
    /\ binding' = b
    /\ op' = o
    /\ args' = a
    /\ url' = u
    /\ requests' = requests + 1
    /\ UNCHANGED <<today, response, result>>

ForecastUrl(a, kind) ==
    [base |-> "OPENMETEO_API_BASE", path |-> "/forecast", fields |-> kind,
     latitude |-> a.latitude, longitude |-> a.longitude]

ArchiveUrl(a) ==
    [base |-> "OPENMETEO_ARCHIVE_API_BASE", path |-> "/era5", fields |-> "daily,hourly",
     latitude |-> a.latitude, longitude |-> a.longitude,
     start_date |-> a.start_date, end_date |-> a.end_date]

\* server.py get_forecast, up to its await.
get_forecast(latitude, longitude) ==
    /\ pc = "idle"
    /\ LET a == [latitude |-> latitude, longitude |-> longitude]
           c == ValidateCoordinates(latitude, longitude)
       IN  IF ~c.pass
           THEN EndEarly("mcp", "forecast", a, Return(c.value))
           ELSE Await("mcp", "forecast", a, ForecastUrl(a, "daily,hourly"))

\* server.py get_current_weather, up to its await.
get_current_weather(latitude, longitude) ==
    /\ pc = "idle"
    /\ LET a == [latitude |-> latitude, longitude |-> longitude]
           c == ValidateCoordinates(latitude, longitude)
       IN  IF ~c.pass
           THEN EndEarly("mcp", "current", a, Return(c.value))
           ELSE Await("mcp", "current", a, ForecastUrl(a, "current"))

\* server.py get_historical_weather, up to its await.
get_historical_weather(latitude, longitude, start_date, end_date) ==
    /\ pc = "idle"
    /\ LET a == [latitude |-> latitude, longitude |-> longitude,
                 start_date |-> start_date, end_date |-> end_date]
           c == ValidateHistorical(latitude, longitude, start_date, end_date, today)
       IN  IF ~c.pass
           THEN EndEarly("mcp", "historical", a, Return(c.value))
           ELSE Await("mcp", "historical", a, ArchiveUrl(a))

\* main.py /forecast, up to its await.
rest_get_forecast(latitude, longitude) ==
    /\ pc = "idle"
    /\ LET a == [latitude |-> latitude, longitude |-> longitude]
           c == RestValidateCoordinates(latitude, longitude)
       IN  IF ~c.pass
           THEN EndEarly("rest", "forecast", a, c.result)
           ELSE Await("rest", "forecast", a, ForecastUrl(a, "daily,hourly"))

\* main.py /current, up to its await.
rest_get_current_weather(latitude, longitude) ==
    /\ pc = "idle"
    /\ LET a == [latitude |-> latitude, longitude |-> longitude]
           c == RestValidateCoordinates(latitude, longitude)
       IN  IF ~c.pass
           THEN EndEarly("rest", "current", a, c.result)
           ELSE Await("rest", "current", a, ForecastUrl(a, "current"))

\* main.py /historical, up to its await.
rest_get_historical_weather(latitude, longitude, start_date, end_date) ==
    /\ pc = "idle"
    /\ LET a == [latitude |-> latitude, longitude |-> longitude,
                 start_date |-> start_date, end_date |-> end_date]
           c == RestValidateHistorical(latitude, longitude, start_date, end_date)
       IN  IF ~c.pass
           THEN EndEarly("rest", "historical", a, c.result)
           ELSE Await("rest", "historical", a, ArchiveUrl(a))

\* What the awaiting handler does with the data make_openmeteo_request gave.
HandlerResult(data) ==
    CASE binding = "mcp" /\ op = "forecast"   -> ForecastResult(data, args, today)
      [] binding = "mcp" /\ op = "current"    -> CurrentResult(data, args, today)
      [] binding = "mcp" /\ op = "historical" -> HistoricalResult(data, args, today)
      [] binding = "rest" /\ op = "forecast"  ->
            RestResult(data, "Unable to fetch forecast data for this location.")
      [] binding = "rest" /\ op = "current"   ->
            RestResult(data, "Unable to fetch current weather data for this location.")
      [] binding = "rest" /\ op = "historical" ->
            RestResult(data,
                "Unable to fetch historical weather data for this location and date range.")

\* The GET ends in resp; make_openmeteo_request returns and the handler runs
\* to its end.
Resume(resp) ==
    /\ response' = resp
    /\ result' = HandlerResult(make_openmeteo_request(resp))
    /\ pc' = "done"
    /\ UNCHANGED <<binding, op, args, today, requests, url>>

\* httpx.RequestError: the connection failed.
UpstreamNetworkError ==
    /\ pc = "awaiting"
    /\ Resume([kind |-> "network_error"])

\* httpx.TimeoutException (a RequestError) after timeout=30.0.
UpstreamTimeout ==
    /\ pc = "awaiting"
    /\ Resume([kind |-> "timeout"])

\* raise_for_status() on a response that is not 2xx.
UpstreamErrorStatus ==
    /\ pc = "awaiting"
    /\ \E s \in ErrorStatuses :
        Resume([kind |-> "response", status |-> s, parses |-> TRUE, body |-> ErrorBody])

\* response.json() fails on the body of a 2xx response.
UpstreamInvalidJSON ==
    /\ pc = "awaiting"
    /\ Resume([kind |-> "response", status |-> 200, parses |-> FALSE, body |-> Null])

\* Any other exception inside the try.
UpstreamUnexpected ==
    /\ pc = "awaiting"
    /\ Resume([kind |-> "exception"])

\* A 2xx response whose body parses.
UpstreamOK ==
    /\ pc = "awaiting"
    /\ \E p \in Payloads :
        Resume([kind |-> "response", status |-> 200, parses |-> TRUE, body |-> p])

Next ==
    \/ \E c \in Coordinates : get_forecast(c.latitude, c.longitude)
    \/ \E c \in Coordinates : get_current_weather(c.latitude, c.longitude)
    \/ \E c \in Coordinates, sd \in DateInputs, ed \in DateInputs :
           get_historical_weather(c.latitude, c.longitude, sd, ed)
    \/ \E c \in Coordinates : rest_get_forecast(c.latitude, c.longitude)
    \/ \E c \in Coordinates : rest_get_current_weather(c.latitude, c.longitude)
    \/ \E c \in Coordinates, sd \in DateInputs, ed \in DateInputs :
           rest_get_historical_weather(c.latitude, c.longitude, sd, ed)
    \/ UpstreamNetworkError
    \/ UpstreamTimeout
    \/ UpstreamErrorStatus
    \/ UpstreamInvalidJSON
    \/ UpstreamUnexpected
    \/ UpstreamOK

Spec == Init /\ [][Next]_vars

\* The GET ends: httpx gives a response or raises, at the latest when the
\* 30 s timeout expires.
RequestEnds ==
    \/ UpstreamNetworkError
    \/ UpstreamTimeout
    \/ UpstreamErrorStatus
    \/ UpstreamInvalidJSON
    \/ UpstreamUnexpected
    \/ UpstreamOK

FairSpec == Spec /\ WF_vars(RequestEnds)

-----------------------------------------------------------------------------
(* Vocabulary of the properties. *)

\* The tool has ended by returning a dict that holds an error and nothing else.
ReturnsError(type) ==
    /\ pc = "done"
    /\ result.kind = "return"
    /\ result.value.t = "obj"
    /\ DOMAIN result.value.o = {"error"}
    /\ result.value.o.error.type = type

ErrorMessage == result.value.o.error.message

ErrorDetails == result.value.o.error.details

Called(b, o) == pc # "idle" /\ binding = b /\ op = o

CoordinatesInRange ==
    /\ args.latitude >= -90 /\ args.latitude <= 90
    /\ args.longitude >= -180 /\ args.longitude <= 180

\* Both dates of the call are well formed and name calendar dates.
DatesParse ==
    /\ MatchesDatePattern(args.start_date) /\ MatchesDatePattern(args.end_date)
    /\ Strptime(args.start_date).ok /\ Strptime(args.end_date).ok

StartDate == Strptime(args.start_date).date

EndDate == Strptime(args.end_date).date

Inverted == ToOrdinal(StartDate) > ToOrdinal(EndDate)

InFuture == ToOrdinal(StartDate) > ToOrdinal(today) \/ ToOrdinal(EndDate) > ToOrdinal(today)

SpanDays == ToOrdinal(EndDate) - ToOrdinal(StartDate)

NoRequestIssued == requests = 0 /\ url = NoUrl /\ response = NoResponse

\* The GET ended without a parsed 2xx body.
UpstreamFailed ==
    \/ response.kind \in {"network_error", "timeout", "exception"}
    \/ response.kind = "response" /\ (response.status \notin 200..299 \/ ~response.parses)

\* The GET ended in a 2xx response whose body parsed.
UpstreamDelivered ==
    response.kind = "response" /\ response.status \in 200..299 /\ response.parses

-----------------------------------------------------------------------------
\* C1: each of the three tools of server.py, called with a latitude outside
\* [-90,90] or a longitude outside [-180,180], returns a ValidationError and
\* no upstream request is made during the invocation.
C1_OutOfRangeCoordinatesRejected ==
    (pc # "idle" /\ binding = "mcp" /\ ~CoordinatesInRange) =>
        /\ ReturnsError("ValidationError")
        /\ ErrorDetails.parameter \in {"latitude", "longitude"}
        /\ NoRequestIssued

C1_Witness ==
    /\ Called("mcp", "historical")
    /\ args = [latitude |-> 0, longitude |-> 181,
               start_date |-> "2023-01-01", end_date |-> "2024-12-31"]
    /\ ReturnsError("ValidationError")
    /\ ErrorDetails.provided_value = 181
    /\ requests = 0

\* C2: get_historical_weather with in-range coordinates and parseable dates
\* where start_date > end_date returns a ValidationError whose details hold
\* both dates, never an APIError, with no upstream request issued; and a
\* request is issued only after the presence, format, parse and the three
\* range checks have passed.
C2_InvertedRangeRejectedBeforeRequest ==
    Called("mcp", "historical") =>
        /\ (CoordinatesInRange /\ DatesParse /\ Inverted) =>
              /\ ReturnsError("ValidationError")
              /\ ~ReturnsError("APIError")
              /\ ErrorDetails.start_date = args.start_date
              /\ ErrorDetails.end_date = args.end_date
              /\ NoRequestIssued
        /\ requests > 0 =>
              /\ CoordinatesInRange
              /\ args.start_date # "" /\ args.end_date # ""
              /\ DatesParse
              /\ ~Inverted /\ ~InFuture /\ SpanDays <= 730

C2_Witness ==
    /\ Called("mcp", "historical")
    /\ args = [latitude |-> -90, longitude |-> -180,
               start_date |-> "2024-12-31", end_date |-> "2023-01-01"]
    /\ ReturnsError("ValidationError")
    /\ requests = 0

\* C3: get_historical_weather checks (1) start <= end, (2) neither date after
\* today (UTC), (3) span <= 730 days in that order and returns the error of
\* the first violated check only: inverted and future gives the ordering
\* error, future and over 730 days gives the future-date error, and the three
\* errors have three different messages.
C3_RangeChecksInOrder ==
    (Called("mcp", "historical") /\ CoordinatesInRange /\ DatesParse) =>
        LET ordering == "start_date must be before or equal to end_date."
            future   == "Historical weather dates cannot be in the future."
            span     == "Date range exceeds maximum allowed period of 2 years (730 days)."
        IN  /\ Cardinality({ordering, future, span}) = 3
            /\ Inverted =>
                  ReturnsError("ValidationError") /\ ErrorMessage = ordering
            /\ (~Inverted /\ InFuture) =>
                  ReturnsError("ValidationError") /\ ErrorMessage = future
            /\ (~Inverted /\ ~InFuture /\ SpanDays > 730) =>
                  ReturnsError("ValidationError") /\ ErrorMessage = span

C3_Witness ==
    /\ Called("mcp", "historical")
    /\ args.start_date = "2023-01-01" /\ args.end_date = "2025-01-01"
    /\ today = [year |-> 2024, month |-> 12, day |-> 31]
    /\ CoordinatesInRange
    /\ InFuture /\ SpanDays > 730
    /\ ReturnsError("ValidationError")
    /\ ErrorMessage = "Historical weather dates cannot be in the future."

\* C4: with in-range coordinates, start <= end and neither date after today,
\* a difference of more than 730 days gives a ValidationError whose details
\* hold requested_days (that difference) and max_days 730; a difference of
\* 730 or less, 730 and 0 included, passes and the upstream request is issued.
C4_SpanLimit ==
    (Called("mcp", "historical") /\ CoordinatesInRange /\ DatesParse
        /\ ~Inverted /\ ~InFuture) =>
        /\ SpanDays > 730 =>
              /\ ReturnsError("ValidationError")
              /\ ErrorDetails.requested_days = SpanDays
              /\ ErrorDetails.max_days = 730
              /\ requests = 0
        /\ SpanDays <= 730 =>
              /\ requests = 1
              /\ url.base = "OPENMETEO_ARCHIVE_API_BASE"
              /\ ~ReturnsError("ValidationError")
        /\ (args.start_date = "2023-01-01" /\ args.end_date = "2025-01-01") =>
              ErrorDetails.requested_days = 731
        /\ (args.start_date = "2023-01-01" /\ args.end_date = "2024-12-31") =>
              SpanDays = 730 /\ requests = 1

C4_Witness ==
    /\ Called("mcp", "historical")
    /\ args.start_date = "2023-01-01" /\ args.end_date = "2025-01-01"
    /\ today = [year |-> 2025, month |-> 1, day |-> 1]
    /\ CoordinatesInRange
    /\ ReturnsError("ValidationError")
    /\ "requested_days" \in DOMAIN ErrorDetails
    /\ ErrorDetails.requested_days = 731
    /\ ErrorDetails.max_days = 730

\* C5: when the upstream call of a validated invocation of a server.py tool
\* ends in a network failure, a timeout, a non-2xx status, an unparseable
\* body or any other exception, the tool returns (does not raise) an APIError
\* and the returned value is the error alone: no upstream field, no
\* weather_description, no generated_at.
C5_UpstreamFailureGivesAPIErrorAlone ==
    (pc = "done" /\ binding = "mcp" /\ UpstreamFailed) =>
        /\ result.kind = "return"
        /\ ReturnsError("APIError")
        /\ DOMAIN result.value.o.error = {"type", "message", "details"}
        /\ \A k \in DOMAIN ErrorDetails : ErrorDetails[k] = args[k]

C5_Witness ==
    /\ Called("mcp", "forecast")
    /\ response.kind = "response" /\ response.status = 503
    /\ ReturnsError("APIError")
    /\ requests = 1

\* A series of the payload holds a code array under key.
HasCodeArray(p, sec, key) ==
    /\ p.t = "obj" /\ sec \in DOMAIN p.o
    /\ p.o[sec].t = "obj" /\ key \in DOMAIN p.o[sec].o
    /\ p.o[sec].o[key].t = "arr"

CodeKeyOf(o) == IF o = "forecast" THEN "weathercode" ELSE "weather_code"

\* The tool has ended by returning the upstream data.
ReturnsData ==
    /\ pc = "done" /\ binding = "mcp"
    /\ UpstreamDelivered
    /\ result.kind = "return"
    /\ ~ReturnsError("APIError")

\* C6: in the data get_forecast (key weathercode) and get_historical_weather
\* (key weather_code) return, for daily and hourly independently: a series
\* whose payload holds a code array of length N holds a weather_description
\* array of length N whose i-th element is get_weather_description of the
\* i-th code; the code array and every other payload field are unchanged; a
\* series is enriched whether or not the other one holds a code array.
C6_SeriesEnrichment ==
    (ReturnsData /\ op \in {"forecast", "historical"}) =>
        LET p == response.body
            r == result.value
            key == CodeKeyOf(op)
        IN  /\ r.t = "obj"
            /\ DOMAIN r.o = (DOMAIN p.o) \cup {"generated_at"}
            /\ \A k \in (DOMAIN p.o) \ {"daily", "hourly"} : r.o[k] = p.o[k]
            /\ \A sec \in {"daily", "hourly"} \cap DOMAIN p.o :
                  HasCodeArray(p, sec, key) =>
                      LET codes == p.o[sec].o[key].a
                          out == r.o[sec].o
                      IN  /\ DOMAIN out = (DOMAIN p.o[sec].o) \cup {"weather_description"}
                          /\ out.weather_description.t = "arr"
                          /\ Len(out.weather_description.a) = Len(codes)
                          /\ \A i \in 1..Len(codes) :
                                out.weather_description.a[i] =
                                    Str(get_weather_description(codes[i]).v)
                          /\ \A k \in DOMAIN p.o[sec].o : out[k] = p.o[sec].o[k]

C6_Witness ==
    /\ ReturnsData /\ op = "historical"
    /\ HasCodeArray(response.body, "hourly", "weather_code")
    /\ ~HasCodeArray(response.body, "daily", "weather_code")
    /\ "daily" \in DOMAIN response.body.o
    /\ response.body.o.hourly.o.weather_code = Arr(<<Num(61), Num(9999)>>)
    /\ result.value.o.hourly.o.weather_description =
          Arr(<<Str("Rain: Slight intensity"), Str("Unknown weather code: 9999")>>)

\* The keys of the WMO table.
KnownCodes ==
    {0, 1, 2, 3, 45, 48, 51, 53, 55, 56, 57, 61, 63, 65, 66, 67, 71, 73, 75, 77,
     80, 81, 82, 85, 86, 95, 96, 99}

\* get_current_weather returned data whose current section held an int code.
DescribedCurrentCode ==
    /\ ReturnsData /\ op = "current"
    /\ "current" \in DOMAIN response.body.o
    /\ response.body.o.current.t = "obj"
    /\ "weather_code" \in DOMAIN response.body.o.current.o
    /\ response.body.o.current.o.weather_code.t = "num"

\* C7: get_weather_description gives a string for every integer code and
\* changes nothing else: 0 gives "Clear sky", 61 gives "Rain: Slight
\* intensity", and a code that is no key of the table (9999, 4, a negative
\* code) gives "Unknown weather code: N" with N the code.
C7_LookupTotal ==
    /\ \A c \in Codes : get_weather_description(Num(c)).ok
    /\ DescribedCurrentCode =>
          LET c == response.body.o.current.o.weather_code.n
              d == result.value.o.current.o.weather_description
          IN  /\ d.t = "str"
              /\ c = 0 => d.s = "Clear sky"
              /\ c = 61 => d.s = "Rain: Slight intensity"
              /\ c = 9999 => d.s = "Unknown weather code: 9999"
              /\ c = 4 => d.s = "Unknown weather code: 4"
              /\ c = -1 => d.s = "Unknown weather code: -1"
              /\ c \notin KnownCodes => d.s = "Unknown weather code: " \o ToString(c)
              /\ c \in KnownCodes => d.s = weather_codes[c]
              /\ \A k \in DOMAIN response.body.o.current.o :
                    result.value.o.current.o[k] = response.body.o.current.o[k]

C7_Witness ==
    /\ DescribedCurrentCode
    /\ response.body.o.current.o.weather_code = Num(9999)
    /\ result.value.o.current.o.weather_description = Str("Unknown weather code: 9999")

\* What the Weather Query Service of server.py answers to the request a REST
\* endpoint got.
ServiceValidation ==
    IF op = "historical"
    THEN ValidateHistorical(args.latitude, args.longitude,
                            args.start_date, args.end_date, today)
    ELSE ValidateCoordinates(args.latitude, args.longitude)

\* C8: a REST endpoint of main.py answers 400 exactly when the service yields
\* a ValidationError for the request, 503 when it yields an APIError and 200
\* otherwise, so /historical and the get_historical_weather tool accept and
\* reject the same inputs.
C8_RestStatusMatchesService ==
    (binding = "rest" /\ pc = "done") =>
        HttpStatus(result) =
            IF ~ServiceValidation.pass THEN 400
            ELSE IF ~Truthy(make_openmeteo_request(response)) THEN 503
            ELSE 200

\* C9: every invocation of a server.py tool ends by returning a result, never
\* by raising, whatever JSON value the 2xx response carries; with a payload
\* of another shape the enrichment is skipped and the result still carries
\* generated_at.
C9_NeverRaises ==
    (binding = "mcp" /\ pc = "done") =>
        /\ result.kind = "return"
        /\ (UpstreamDelivered /\ ~ReturnsError("APIError")) =>
              "generated_at" \in DOMAIN result.value.o

\* C10: one invocation issues at most one request, exactly one when the
\* validation passes and none when it fails; after a failed request it
\* returns APIError with no second attempt, and once the request is over the
\* invocation returns.
C10_OneRequestThenReturn ==
    binding = "mcp" =>
        /\ requests <= 1
        /\ pc = "awaiting" => requests = 1
        /\ pc = "done" =>
              /\ result.kind = "return"
              /\ requests = 0 <=> ReturnsError("ValidationError")
              /\ UpstreamFailed => ReturnsError("APIError")

\* The part of C10 that is about the requests alone: no invocation, of a tool
\* or of an endpoint, issues a second request, and a request is issued exactly
\* when the handler reaches its await.
AtMostOneRequest ==
    /\ requests <= 1
    /\ requests = 1 <=> (pc = "awaiting" \/ response # NoResponse)

\* Under FairSpec an invocation that issued its request ends, by a return or
\* by a raise.
InvocationEnds == (pc = "awaiting") ~> (pc = "done")

\* The JSON values Python takes as false.
FalsyBodies ==
    { Obj(EmptyDict), Arr(<< >>), Null, Num(0), Bool(FALSE), Str("") }

\* C11: when the upstream answers 2xx with a body that parses but is falsy
\* (empty object, empty array, null, 0, false, empty string), each of the
\* three tools of server.py returns an APIError and no WeatherResult, so data
\* is returned only for a non-empty payload.
C11_FalsyPayloadGivesAPIError ==
    (pc = "done" /\ binding = "mcp" /\ UpstreamDelivered) =>
        /\ response.body \in FalsyBodies =>
              /\ ReturnsError("APIError")
              /\ \A k \in DOMAIN ErrorDetails : ErrorDetails[k] = args[k]
              /\ requests = 1
        /\ ReturnsData => response.body \notin FalsyBodies

C11_Witness ==
    /\ Called("mcp", "historical")
    /\ UpstreamDelivered
    /\ response.body = Obj(EmptyDict)
    /\ ReturnsError("APIError")
    /\ requests = 1

====
